---- MODULE Spec2Model ----
(***************************************************************************)
(* The backend command stream: a producer records driver calls and custom  *)
(* commands into a circular arena, a consumer replays them with            *)
(* CommandStream::execute.                                                 *)
(*                                                                         *)
(* Addresses are integers: the arena occupies [ArenaBase, ArenaBase +      *)
(* Capacity) and the null pointer is 0.  The write and release cursors W   *)
(* and R are absolute byte counts; the byte they designate is at offset    *)
(* W % Capacity of the arena.                                              *)
(***************************************************************************)
EXTENDS Integers, Sequences, FiniteSets, TLC

\* ---------------------------------------------------------------- bounds
\* Arena capacity, in units of Alignment.
CapUnits == 9
\* Records (skip markers and terminators included) constructed between two resets.
MaxRecs == 4

\* ------------------------------------------------------------- constants
Alignment == 8
Capacity == CapUnits * Alignment
ArenaBase == Capacity
NULL == 0
NoNext == 0 - 1

TypedOps == {"setViewport", "clear", "loadVertexBuffer"}
SyncOps == {"getFrameTime"}
DriverOps == TypedOps \cup SyncOps
Args == {0, 1}
NoCall == [op |-> "none", arg |-> 0]

\* CommandBase::align: round v up to the object alignment.
align(v) == ((v + (Alignment - 1)) \div Alignment) * Alignment

\* sizeof of each record type (bytes, before alignment).
Sizeof(kind) ==
    CASE kind = "noop" -> 8
      [] kind = "custom" -> 20
      [] kind = "setViewport" -> 12
      [] kind = "clear" -> 12
      [] kind = "loadVertexBuffer" -> 28
      [] OTHER -> 12

NoopSize == align(Sizeof("noop"))

VARIABLES
    recs,       \* every record placed in the arena since the last reset, in order
    W,          \* write cursor (absolute)
    R,          \* release cursor (absolute): bytes before it are reclaimed
    sliceStart, \* start (absolute) of the slice being filled
    pending,    \* flushed slices waiting for execute: [start, end]
    ppc,        \* producer: "idle" | "allocated"
    parg,       \* producer: the argument of the call being enqueued
    callerArg,  \* the caller's own copy of the argument
    cpc,        \* consumer: "idle" | "loop" | "exec" | "returned"
    base,       \* consumer: CommandBase* base of execute
    cur,        \* consumer: index in recs of the record being executed
    step,       \* consumer: next step of the record's execute
    next,       \* consumer: intptr_t next of CommandBase::execute
    trace,      \* every method and callable the walk invoked, in order
    direct,     \* the last driver method invoked directly by the caller
    ub,         \* the walk executed bytes that are no live record
    fatal,      \* the size of the request that raised a capacity error, else 0
    torn,       \* the stream was torn down
    outcome,    \* consumer: how the call the current record invoked ended
    profiling,  \* consumer: the profiler of execute is measuring
    systrace,   \* SYSTRACE_TAG of the build is non-zero
    data,       \* radix sort: the range [begin, end)
    sortCalls,  \* radix sort: calls of radix_sort made on the range
    loader,     \* gltfio: the class of the loader, ResourceLoader or BindingHelper
    ownerAlive, \* gltfio: the loader object has not been destroyed
    mPendingUploads,  \* pool: uploads handed to the engine and not yet completed
    mLoaderDestroyed, \* pool: mLoaderDestroyed (AssetPool), mOwnerDestroyed (UrlCache)
    poolDeletes,\* pool: the number of times the pool was deleted
    poolUB,     \* pool: a method touched the pool after it was deleted
    handed,     \* engine: buffer descriptors moved into the engine
    delivered,  \* engine: release callbacks of those descriptors it has run
    lpc,        \* loadResources: "idle" | "loading" | "uploading"
    bi,         \* loadResources: the binding the loop is at (from 1)
    loads,      \* loadResources: calls made
    effects,    \* loadResources: what the current call did for each binding
    result,     \* loadResources: what the last call returned
    bindings,   \* asset: mBufferBindings
    assetAlive, \* asset: the asset has not been destroyed
    mAnimator,  \* asset: mAnimator, 0 for nullptr
    animators,  \* asset: the animators that exist
    animatorsCreated, \* asset: number of Animator objects ever constructed
    animatorCalls,    \* asset: calls of createAnimator made
    returned,   \* asset: what the last createAnimator returned
    mCache,     \* materials: mCache, the entries (key, material) of the map
    mMaterials, \* materials: mMaterials, in the order of push_back
    materialCalls, \* materials: the calls made on the generator, in order
    mImpl,      \* orientation builder: the fields of OrientationBuilderImpl
    panicked,   \* orientation builder: message of the precondition that failed
    orientation,\* orientation builder: what the last build returned
    supplied,   \* orientation builder: index widths stored non-null so far
    lastCall,   \* orientation builder: the last call, the indices held before it
    sortLog,    \* radix sort: the last call on a part of the range, what it was
                \* given and the recursive calls it made
    loop,       \* radix sort: the in-place distribution loop, statement by
                \* statement: its position, bucket table and iterators
    callbackThread, \* pool: the engine's thread inside onLoadedResource
    ownerThread     \* pool: the client's thread inside the loader's destructor

vars == <<recs, W, R, sliceStart, pending, ppc, parg, callerArg, cpc, base,
          cur, step, next, trace, direct, ub, fatal, torn,
          outcome, profiling, systrace, data, sortCalls,
          loader, ownerAlive, mPendingUploads, mLoaderDestroyed, poolDeletes,
          poolUB, handed, delivered, lpc, bi, loads, effects, result,
          bindings, assetAlive, mAnimator, animators, animatorsCreated,
          animatorCalls, returned, mCache, mMaterials, materialCalls,
          mImpl, panicked, orientation, supplied, lastCall, sortLog, loop,
          callbackThread, ownerThread>>

\* Neither aborted on a capacity error nor torn down.
Running == fatal = 0 /\ ~torn

streamVars == <<recs, W, R, sliceStart, pending, ppc, parg, callerArg, cpc,
                base, cur, step, next, trace, direct, ub, fatal, torn,
                outcome, profiling, systrace>>
sortVars == <<data, sortCalls>>
poolVars == <<loader, ownerAlive, mPendingUploads, mLoaderDestroyed,
              poolDeletes, poolUB, handed, delivered>>
loadVars == <<lpc, bi, loads, effects, result>>
assetVars == <<bindings, assetAlive, mAnimator, animators, animatorsCreated,
               animatorCalls, returned>>
gltfVars == <<poolVars, loadVars, assetVars>>
\* The components the command stream never touches.
materialVars == <<mCache, mMaterials, materialCalls>>
\* The components outside the stream, the sort, the loader and the asset.
builderVars == <<mImpl, panicked, orientation, supplied, lastCall>>
sortStepVars == <<sortLog, loop>>
threadVars == <<callbackThread, ownerThread>>
restVars == <<materialVars, builderVars, sortStepVars, threadVars>>
otherVars == <<sortVars, gltfVars, restVars>>

producerVars == <<recs, W, sliceStart, ppc, parg>>
consumerVars == <<cpc, base, cur, step, next, outcome, profiling, systrace>>

\* How a driver method or a callable can end, as far as the walk is concerned.
Outcomes == {"ok", "fail"}

\* ---------------------------------------------------------------- arena
Offset(p) == p % Capacity
Addr(p) == ArenaBase + Offset(p)

\* The request fits in the contiguous tail, leaving room for a marker.
Fits(size) == Offset(W) + size + NoopSize <= Capacity
TailBytes == Capacity - Offset(W)
AllocPos(size) == IF Fits(size) THEN W ELSE W + TailBytes
\* Mutant: the allocation does not look at the bytes not yet released.
AllocOkIgnoringRelease(size) == size + NoopSize <= Capacity
\* The request does not exceed the capacity nor reach bytes not yet released.
AllocOk(size) ==
    /\ size + NoopSize <= Capacity
    /\ AllocPos(size) + size - R <= Capacity

NewRec(kind, pos, state, nxt) ==
    [kind |-> kind, pos |-> pos, state |-> state, arg |-> 0, passed |-> 0,
     inv |-> 0, des |-> 0, bd |-> "none", cb |-> 0, next |-> nxt]

\* The skip marker left at the old cursor: its next leads to offset 0.
SkipMarker(pos) == NewRec("noop", pos, "constructed", 0 - Offset(pos))
\* The end-of-stream marker: this + next is the null pointer.
Terminator(pos) == NewRec("noop", pos, "constructed", NULL - Addr(pos))

\* CircularBuffer allocation as the stream uses it: the records after the call.
Allocated(kind, size) ==
    (IF Fits(size) THEN recs ELSE Append(recs, SkipMarker(W)))
        \o << NewRec(kind, AllocPos(size), "allocated", NoNext) >>

\* allocateCommand(size) for a record of type kind, called with argument a.
AllocateCommand(kind, size, a) ==
    /\ ppc = "idle" /\ Running
    /\ Len(recs) + 2 <= MaxRecs
    /\ IF AllocOk(size)
         THEN /\ recs' = Allocated(kind, size)
              /\ W' = AllocPos(size) + size
              /\ ppc' = "allocated"
              /\ parg' = a
              /\ UNCHANGED fatal
         ELSE /\ fatal' = size
              /\ UNCHANGED <<recs, W, ppc, parg>>
    /\ UNCHANGED <<R, sliceStart, pending, callerArg, trace, direct, ub, torn>>
    /\ UNCHANGED consumerVars
    /\ UNCHANGED otherVars

\* ------------------------------------------------------------- producer
\* The argument tuple stored in a typed command: a copy of the values passed.
SavedParameters(a) == a

\* Mutant: the caller passes a copy and its own descriptor keeps the callback.
CallerDescriptorCopied == "held"
\* The caller's BufferDescriptor after std::move(bd): it holds nothing.
CallerDescriptorAfterMove == "empty"

\* Placement construction of the record allocated by the call in progress. The
\* caller's descriptor goes out of scope when the call returns: if it still
\* held the buffer, its destructor would run the release callback.
PlacementNew ==
    /\ ppc = "allocated" /\ Running
    /\ recs' = [recs EXCEPT ![Len(recs)] =
                  [@ EXCEPT !.state = "constructed",
                            !.arg = SavedParameters(parg),
                            !.passed = parg,
                            !.bd = IF recs[Len(recs)].kind = "loadVertexBuffer"
                                     THEN "held" ELSE "none",
                            !.cb = IF recs[Len(recs)].kind = "loadVertexBuffer"
                                      /\ CallerDescriptorAfterMove = "held"
                                     THEN @ + 1 ELSE @]]
    /\ ppc' = "idle"
    /\ UNCHANGED <<W, R, sliceStart, pending, parg, callerArg, trace, direct,
                   ub, fatal, torn>>
    /\ UNCHANGED consumerVars
    /\ UNCHANGED otherVars

\* Mutant: synchronous methods get a Command type like the others.
IsRecordedAlways(op) == TRUE
\* Whether a driver operation is recorded in the arena (it has a Command type).
IsRecorded(op) == op \notin SyncOps

\* Mutant: only the size of the command's base is asked for.
QueueCommandSizeBaseOnly == align(Sizeof("noop"))
\* size queueCommand asks of allocateCommand.
QueueCommandSize == align(Sizeof("custom"))

\* Mutant: the enqueue waits until the consumer is not executing.
QueueCommandWaits ==
    cpc = "idle" /\ AllocateCommand("custom", QueueCommandSize, 0)
\* CommandStream::queueCommand, up to the allocation.
QueueCommand == AllocateCommand("custom", QueueCommandSize, 0)

\* A synchronous driver method runs at once, on the calling thread.
SyncCall(op, a) ==
    /\ ppc = "idle" /\ Running
    /\ direct' = [op |-> op, arg |-> a]
    /\ UNCHANGED <<R, pending, callerArg, trace, ub, fatal, torn>>
    /\ UNCHANGED producerVars
    /\ UNCHANGED otherVars
    /\ UNCHANGED consumerVars
    /\ UNCHANGED otherVars

\* One driver method of the command stream, called with the caller's argument.
DriverCall(op) ==
    IF IsRecorded(op)
      THEN AllocateCommand(op, align(Sizeof(op)), callerArg)
      ELSE SyncCall(op, callerArg)

\* The caller changes its own copy of the argument between two calls.
CallerMutates ==
    /\ ppc = "idle" /\ Running
    /\ callerArg' = 1 - callerArg
    /\ UNCHANGED <<R, pending, trace, direct, ub, fatal, torn>>
    /\ UNCHANGED producerVars
    /\ UNCHANGED otherVars
    /\ UNCHANGED consumerVars
    /\ UNCHANGED otherVars

\* The buffer swap ends the slice with a terminator and hands it to the consumer.
Flush ==
    /\ ppc = "idle" /\ Running
    /\ W > sliceStart
    /\ Len(recs) <= MaxRecs
    /\ IF AllocOk(NoopSize)
         THEN /\ recs' = (IF Fits(NoopSize) THEN recs
                            ELSE Append(recs, SkipMarker(W)))
                         \o << Terminator(AllocPos(NoopSize)) >>
              /\ W' = AllocPos(NoopSize) + NoopSize
              /\ pending' = Append(pending, [start |-> sliceStart, end |-> W'])
              /\ sliceStart' = W'
              /\ UNCHANGED fatal
         ELSE /\ fatal' = NoopSize
              /\ UNCHANGED <<recs, W, pending, sliceStart>>
    /\ UNCHANGED <<R, ppc, parg, callerArg, trace, direct, ub, torn>>
    /\ UNCHANGED consumerVars
    /\ UNCHANGED otherVars

\* ------------------------------------------------------------- consumer
\* Record i occupies the byte at address a.
Covers(i, a) ==
    /\ Addr(recs[i].pos) <= a
    /\ a < Addr(recs[i].pos) + Sizeof(recs[i].kind)

\* The record written last over address a, 0 when none was.
TopAt(a) ==
    LET c == {i \in 1..Len(recs) : Covers(i, a)}
    IN  IF c = {} THEN 0 ELSE CHOOSE i \in c : \A j \in c : j <= i

\* The live record that starts at address a, 0 when the bytes there are none.
RecordAt(a) ==
    LET t == TopAt(a)
    IN  IF t # 0 /\ Addr(recs[t].pos) = a /\ recs[t].state = "constructed"
          THEN t ELSE 0

AlignedAddrs == {ArenaBase + u * Alignment : u \in 0..(CapUnits - 1)}

\* Mutant: execute walks mCurrentBuffer, the slice the producer is filling,
\* instead of the buffer it was given.
ExecuteBeginCurrentBuffer ==
    /\ cpc = "idle" /\ Running
    /\ pending # <<>>
    /\ profiling' = systrace
    /\ base' = Addr(sliceStart)
    /\ cpc' = "loop"
    /\ UNCHANGED <<cur, step, next, outcome, systrace>>
    /\ UNCHANGED <<R, pending, callerArg, trace, direct, ub, fatal, torn>>
    /\ UNCHANGED producerVars
    /\ UNCHANGED otherVars

\* Mutant: a build with tracing measures and returns without walking.
ExecuteBeginTraceOnly ==
    /\ cpc = "idle" /\ Running
    /\ pending # <<>>
    /\ profiling' = systrace
    /\ base' = (IF systrace THEN NULL ELSE Addr(Head(pending).start))
    /\ cpc' = "loop"
    /\ UNCHANGED <<cur, step, next, outcome, systrace>>
    /\ UNCHANGED <<R, pending, callerArg, trace, direct, ub, fatal, torn>>
    /\ UNCHANGED producerVars
    /\ UNCHANGED otherVars

\* execute(buffer): the walk starts at the first byte of the oldest flushed slice.
\* With SYSTRACE_TAG the profiler is reset and started before the loop.
ExecuteBegin ==
    /\ cpc = "idle" /\ Running
    /\ pending # <<>>
    /\ profiling' = systrace
    /\ base' = Addr(Head(pending).start)
    /\ cpc' = "loop"
    /\ UNCHANGED <<cur, step, next, outcome, systrace>>
    /\ UNCHANGED <<R, pending, callerArg, trace, direct, ub, fatal, torn>>
    /\ UNCHANGED producerVars
    /\ UNCHANGED otherVars

\* Mutant: the loop test is inverted for every pointer the walk meets.
LoopContinuesNever(b) == FALSE
\* while (base): the loop continues on a non-null pointer.
LoopContinues(b) == b # NULL

\* base->execute(driver) is entered: mExecute of the record at base is called.
\* Bytes that are no live record make the call undefined: any continuation.
ExecuteFetch ==
    /\ cpc = "loop" /\ Running /\ LoopContinues(base)
    /\ IF RecordAt(base) # 0
         THEN /\ cur' = RecordAt(base)
              /\ step' = 1
              /\ next' = NoNext
              /\ cpc' = "exec"
              /\ outcome' = "none"
              /\ UNCHANGED <<base, ub>>
         ELSE /\ ub' = TRUE
              /\ base' \in AlignedAddrs \cup {NULL}
              /\ UNCHANGED <<cur, step, next, cpc, outcome>>
    /\ UNCHANGED <<profiling, systrace>>
    /\ UNCHANGED <<R, pending, callerArg, trace, direct, fatal, torn>>
    /\ UNCHANGED producerVars
    /\ UNCHANGED otherVars

\* Mutant: the command is destructed before its callable is invoked.
CustomCommandStepsDestructFirst == <<"next", "destruct", "invoke">>
\* Mutant: the command is never destructed.
CustomCommandStepsNoDestruct == <<"next", "invoke">>
\* CustomCommand::execute, statement by statement.
CustomCommandSteps == <<"next", "invoke", "destruct">>
\* Mutant: the advance is the size of the command without its alignment.
CustomCommandNextUnaligned == Sizeof("custom")
\* Mutant: the advance is the aligned size of CommandBase alone.
CustomCommandNextBaseOnly == align(Sizeof("noop"))
\* *next of CustomCommand::execute.
CustomCommandNext == align(Sizeof("custom"))

\* Mutant: a typed command destructs its arguments before the call.
TypedCommandStepsDestructFirst == <<"destruct", "invoke", "next">>
\* A typed command's execute: call the method, destruct the arguments, report next.
TypedCommandSteps == <<"invoke", "destruct", "next">>
\* A marker's execute reports its stored next; it holds nothing to destruct.
NoopSteps == <<"next", "destruct">>

StepsOf(kind) ==
    CASE kind = "custom" -> CustomCommandSteps
      [] kind = "noop" -> NoopSteps
      [] OTHER -> TypedCommandSteps

\* The byte advance record i reports.
NextOf(i) ==
    CASE recs[i].kind = "custom" -> CustomCommandNext
      [] recs[i].kind = "noop" -> recs[i].next
      [] OTHER -> align(Sizeof(recs[i].kind))

\* What the driver method does with a buffer descriptor moved into it: leave it
\* in the record, keep it for later, or release it during the call.
DescriptorFates(i) ==
    IF recs[i].bd = "held" THEN {"held", "driver", "released"} ELSE {recs[i].bd}

\* Mutant: the callable is invoked twice in a row.
InvokeTwice(i) ==
    /\ recs' = [recs EXCEPT ![i] = [@ EXCEPT !.inv = @ + 2]]
    /\ trace' = trace \o << [id |-> i, op |-> recs[i].kind, arg |-> recs[i].arg,
                              thread |-> "consumer"],
                            [id |-> i, op |-> recs[i].kind, arg |-> recs[i].arg,
                              thread |-> "consumer"] >>
    /\ outcome' = "ok"
    /\ UNCHANGED <<ub, next>>

\* The stored callable or the bound driver method is invoked.
Invoke(i) ==
    /\ \E f \in DescriptorFates(i) :
          recs' = [recs EXCEPT ![i] =
                      [@ EXCEPT !.inv = @ + 1,
                                !.bd = f,
                                !.cb = IF f = "released" /\ recs[i].bd = "held"
                                         THEN @ + 1 ELSE @]]
    /\ trace' = IF recs[i].kind = "noop" THEN trace
                ELSE Append(trace, [id |-> i, op |-> recs[i].kind,
                                    arg |-> recs[i].arg, thread |-> "consumer"])
    /\ outcome' \in Outcomes
    /\ ub' = (ub \/ recs[i].des > 0)
    /\ UNCHANGED next

\* The record's stored state is destructed; a descriptor it still holds is released.
Destruct(i) ==
    /\ recs' = [recs EXCEPT ![i] =
                  [@ EXCEPT !.des = @ + 1,
                            !.state = "destructed",
                            !.bd = IF @ = "held" THEN "released" ELSE @,
                            !.cb = IF recs[i].bd = "held" THEN @ + 1 ELSE @]]
    /\ ub' = (ub \/ recs[i].des > 0)
    /\ UNCHANGED <<trace, next, outcome>>

\* One statement of the current record's execute.
ExecuteStep ==
    /\ cpc = "exec" /\ Running /\ step <= Len(StepsOf(recs[cur].kind))
    /\ LET s == StepsOf(recs[cur].kind)[step]
       IN  CASE s = "next" -> /\ next' = NextOf(cur)
                              /\ recs' = [recs EXCEPT ![cur].inv =
                                            IF recs[cur].kind = "noop"
                                              THEN @ + 1 ELSE @]
                              /\ UNCHANGED <<trace, ub, outcome>>
             [] s = "invoke" -> Invoke(cur)
             [] OTHER -> Destruct(cur)
    /\ step' = step + 1
    /\ UNCHANGED <<W, R, sliceStart, pending, ppc, parg, callerArg, cpc, base,
                   cur, direct, fatal, torn, profiling, systrace>>
    /\ UNCHANGED otherVars

\* Mutant: the advance is applied as an unsigned size, never backwards.
ExecuteAdvanceUnsigned ==
    /\ cpc = "exec" /\ Running /\ step > Len(StepsOf(recs[cur].kind))
    /\ IF next # NoNext
         THEN base' = base + (IF next < 0 THEN 0 - next ELSE next) /\ UNCHANGED ub
         ELSE ub' = TRUE /\ base' \in AlignedAddrs \cup {NULL}
    /\ cpc' = "loop"
    /\ UNCHANGED <<cur, step, next, outcome, profiling, systrace>>
    /\ UNCHANGED <<R, pending, callerArg, trace, direct, fatal, torn>>
    /\ UNCHANGED producerVars
    /\ UNCHANGED otherVars

\* Mutant: the pointer execute returns is dropped, base stays where it was.
ExecuteAdvanceStuck ==
    /\ cpc = "exec" /\ Running /\ step > Len(StepsOf(recs[cur].kind))
    /\ cpc' = "loop"
    /\ UNCHANGED <<base, cur, step, next, ub, outcome, profiling, systrace>>
    /\ UNCHANGED <<R, pending, callerArg, trace, direct, fatal, torn>>
    /\ UNCHANGED producerVars
    /\ UNCHANGED otherVars

\* Mutant: the walk stops at a record whose call failed.
ExecuteAdvanceOnSuccess ==
    /\ cpc = "exec" /\ Running /\ step > Len(StepsOf(recs[cur].kind))
    /\ IF next # NoNext
         THEN base' = (IF outcome = "fail" THEN NULL ELSE base + next)
              /\ UNCHANGED ub
         ELSE ub' = TRUE /\ base' \in AlignedAddrs \cup {NULL}
    /\ cpc' = "loop"
    /\ UNCHANGED <<cur, step, next, outcome, profiling, systrace>>
    /\ UNCHANGED <<R, pending, callerArg, trace, direct, fatal, torn>>
    /\ UNCHANGED producerVars
    /\ UNCHANGED otherVars

\* base = base->execute(driver): the pointer moves by the reported advance.
\* An advance that was never written is an uninitialized read: any continuation.
ExecuteAdvance ==
    /\ cpc = "exec" /\ Running /\ step > Len(StepsOf(recs[cur].kind))
    /\ IF next # NoNext
         THEN base' = base + next /\ UNCHANGED ub
         ELSE ub' = TRUE /\ base' \in AlignedAddrs \cup {NULL}
    /\ cpc' = "loop"
    /\ UNCHANGED <<cur, step, next, outcome, profiling, systrace>>
    /\ UNCHANGED <<R, pending, callerArg, trace, direct, fatal, torn>>
    /\ UNCHANGED producerVars
    /\ UNCHANGED otherVars

\* The loop ends on the null pointer and execute returns.
\* With SYSTRACE_TAG the counters are read and traced after the loop.
ExecuteReturn ==
    /\ cpc = "loop" /\ Running /\ ~LoopContinues(base)
    /\ cpc' = "returned"
    /\ profiling' = FALSE
    /\ outcome' = "none"
    /\ UNCHANGED <<base, cur, step, next, systrace>>
    /\ UNCHANGED <<R, pending, callerArg, trace, direct, ub, fatal, torn>>
    /\ UNCHANGED producerVars
    /\ UNCHANGED otherVars

\* The buffer swap reclaims the slice that was executed.
ReleaseBuffer ==
    /\ cpc = "returned" /\ Running
    /\ R' = Head(pending).end
    /\ pending' = Tail(pending)
    /\ cpc' = "idle"
    /\ UNCHANGED <<base, cur, step, next, outcome, profiling, systrace>>
    /\ UNCHANGED <<callerArg, trace, direct, ub, fatal, torn>>
    /\ UNCHANGED producerVars
    /\ UNCHANGED otherVars

\* The driver releases a buffer descriptor it kept.
DriverRelease(i) ==
    /\ recs[i].bd = "driver" /\ fatal = 0
    /\ recs' = [recs EXCEPT ![i] = [@ EXCEPT !.bd = "released", !.cb = @ + 1]]
    /\ UNCHANGED <<W, R, sliceStart, pending, ppc, parg, callerArg, trace,
                   direct, ub, fatal, torn>>
    /\ UNCHANGED consumerVars
    /\ UNCHANGED otherVars

Quiescent ==
    /\ ppc = "idle" /\ cpc = "idle" /\ Running
    /\ pending = <<>> /\ R = W
    /\ \A i \in 1..Len(recs) : recs[i].bd # "driver"

\* The arena is logically cleared for reuse: the cursors return to offset 0.
Reset ==
    /\ Quiescent /\ W > 0
    /\ recs' = <<>> /\ W' = 0 /\ R' = 0 /\ sliceStart' = 0
    /\ trace' = <<>> /\ direct' = NoCall
    /\ UNCHANGED <<pending, ppc, parg, callerArg, ub, fatal, torn>>
    /\ UNCHANGED consumerVars
    /\ UNCHANGED otherVars

\* The stream is torn down once everything enqueued has been drained.
Teardown ==
    /\ Quiescent
    /\ torn' = TRUE
    /\ UNCHANGED <<recs, W, R, sliceStart, pending, ppc, parg, callerArg,
                   trace, direct, ub, fatal>>
    /\ UNCHANGED consumerVars
    /\ UNCHANGED otherVars

\* ------------------------------------------------------- specification
StreamInit ==
    /\ recs = <<>> /\ W = 0 /\ R = 0 /\ sliceStart = 0 /\ pending = <<>>
    /\ ppc = "idle" /\ parg = 0 /\ callerArg \in Args
    /\ cpc = "idle" /\ base = NULL /\ cur = 0 /\ step = 0 /\ next = NoNext
    /\ trace = <<>> /\ direct = NoCall
    /\ ub = FALSE /\ fatal = 0 /\ torn = FALSE
    /\ outcome = "none" /\ profiling = FALSE

\* No range is being sorted.
SortIdle == data = <<>> /\ sortCalls = 0

\* A pool with its loader, nothing loaded yet.
PoolInit ==
    /\ ownerAlive = TRUE /\ mPendingUploads = 0 /\ mLoaderDestroyed = FALSE
    /\ poolDeletes = 0 /\ poolUB = FALSE /\ handed = 0 /\ delivered = 0
    /\ lpc = "idle" /\ bi = 0 /\ loads = 0 /\ effects = <<>> /\ result = "none"
\* An asset on which createAnimator was never called.
AssetInit ==
    /\ assetAlive = TRUE /\ mAnimator = 0 /\ animators = {}
    /\ animatorsCreated = 0 /\ animatorCalls = 0 /\ returned = 0
\* No asset is being loaded.
GltfIdle ==
    /\ loader = "ResourceLoader" /\ bindings = <<>> /\ PoolInit /\ AssetInit

\* A thread that is not inside a method of the pool.
Outside == [pc |-> "outside", seen |-> 0]
ThreadsIdle == callbackThread = Outside /\ ownerThread = Outside
\* No call was made on a part of the range and the distribution loop is not
\* running.
SortStepIdle ==
    /\ sortLog = [before |-> <<>>, begin |-> 0, end |-> 0, passed |-> {}]
    /\ loop = [pc |-> "idle", digit |-> 0, p |-> 0, it |-> 0, last |-> 0,
               offset |-> <<>>, next |-> <<>>, start |-> <<>>]
\* OrientationBuilderImpl as its member initializers leave it.
NewBuilderImpl ==
    [vertexCount |-> 0, normals |-> NULL, tangents |-> NULL, uvs |-> NULL,
     positions |-> NULL, triangles32 |-> NULL, triangles16 |-> NULL]
\* The index pointers the builder holds, by width.
Indices(b) == [triangles32 |-> b.triangles32, triangles16 |-> b.triangles16]
\* No SurfaceOrientation was built.
NoOrientation == [by |-> "none", getVertexCount |-> 0]
\* Builder::Builder(): nothing supplied, nothing built.
BuilderInit ==
    /\ mImpl = NewBuilderImpl /\ panicked = "none"
    /\ orientation = NoOrientation
    /\ supplied = {}
    /\ lastCall = [op |-> "none", arg |-> 0, before |-> Indices(NewBuilderImpl)]
\* A generator that was asked for no material yet.
MaterialInit == mCache = {} /\ mMaterials = <<>> /\ materialCalls = <<>>
\* Nothing outside the stream, the sort, the loader and the asset is in use.
RestIdle == MaterialInit /\ BuilderInit /\ SortStepIdle /\ ThreadsIdle

\* A build without tracing: SYSTRACE_TAG is 0.
Init == StreamInit /\ systrace = FALSE /\ SortIdle /\ GltfIdle /\ RestIdle

Next ==
    \/ \E op \in DriverOps : DriverCall(op)
    \/ QueueCommand
    \/ PlacementNew
    \/ CallerMutates
    \/ Flush
    \/ ExecuteBegin
    \/ ExecuteFetch
    \/ ExecuteStep
    \/ ExecuteAdvance
    \/ ExecuteReturn
    \/ ReleaseBuffer
    \/ \E i \in 1..Len(recs) : DriverRelease(i)
    \/ Reset
    \/ Teardown


Spec == Init /\ [][Next]_vars

\* A build with tracing: SYSTRACE_TAG is not 0.
InitTracing ==
    StreamInit /\ systrace = TRUE /\ SortIdle /\ GltfIdle /\ RestIdle

SpecTracing == InitTracing /\ [][Next]_vars

\* A malformed use by the caller: execute is called again on the buffer it has
\* just walked.  execute checks nothing before its loop, in any build: the
\* thread recorded by the constructor is not consulted.
ExecuteAgain ==
    /\ cpc = "returned" /\ Running /\ ~ub
    /\ profiling' = systrace
    /\ base' = Addr(Head(pending).start)
    /\ cpc' = "loop"
    /\ UNCHANGED <<cur, step, next, outcome, systrace>>
    /\ UNCHANGED <<R, pending, callerArg, trace, direct, ub, fatal, torn>>
    /\ UNCHANGED producerVars
    /\ UNCHANGED otherVars

NextMisuse == Next \/ ExecuteAgain

\* The stream with a caller that may break the drain discipline.
SpecMisuse == Init /\ [][NextMisuse]_vars

\* ----------------------------------------------------------- radix sort
\* utils::radix_sort (RadixSort.h) on a range of unsigned integers.  The sizes
\* of the source are scaled down: digits of RADIX_BITS = 1 bit (8 in the
\* source), values of SortDigits = 2 digits (sizeof(uint32_t) = 4 in the
\* source), std::sort for ranges of at most StdSortMax = 2 elements (128 in
\* the source).  Indices are relative to the first element of the array, as
\* the iterators of the source are to begin.

\* Longest range sorted.
MaxLen == 4
\* Most calls of radix_sort on one range.
MaxSortCalls == 2

RADIX_BITS == 1
BUCKET_SIZE == 2 ^ RADIX_BITS
SortDigits == 2
StdSortMax == 2
Values == 0..(BUCKET_SIZE ^ SortDigits - 1)
Buckets == 0..(BUCKET_SIZE - 1)

\* getRadix of RadixSort<.., DIGIT = digit>: (v & RADIX_MASK) >> RADIX_SHIFT.
getRadix(digit, v) == (v \div (BUCKET_SIZE ^ (digit - 1))) % BUCKET_SIZE

\* Mutant: the whole array is sorted, not only the range.
StdSortWhole(a, begin, end) == SortSeq(a, LAMBDA x, y : x < y)
\* std::sort(begin, end) on the elements begin .. end - 1 of a.
StdSort(a, begin, end) ==
    SubSeq(a, 1, begin)
        \o SortSeq(SubSeq(a, begin + 1, end), LAMBDA x, y : x < y)
        \o SubSeq(a, end + 1, Len(a))

\* Bucket::offset after the counting and prefix-sum loops: the number of
\* elements of the range whose digit is smaller.
BucketOffset(digit, a, begin, end) ==
    [r \in Buckets |->
        Cardinality({i \in begin..(end - 1) : getRadix(digit, a[i + 1]) < r})]
\* Bucket::next after the prefix-sum loop: offset plus the bucket's count.
BucketNext(digit, a, begin, end) ==
    [r \in Buckets |->
        Cardinality({i \in begin..(end - 1) : getRadix(digit, a[i + 1]) <= r})]

\* for (it = begin + offset; it != last; ++it): each element met is swapped
\* with the element at the next free place of its own bucket.
RECURSIVE DistributeRun(_, _, _, _, _)
DistributeRun(digit, begin, st, it, last) ==
    IF it = last THEN st
    ELSE LET v == st.a[begin + it + 1]
             radix == getRadix(digit, v)
             index == st.offset[radix]
             r == st.a[begin + index + 1]
             a1 == [st.a EXCEPT ![begin + index + 1] = v]
             a2 == [a1 EXCEPT ![begin + it + 1] = r]
         IN  DistributeRun(digit, begin,
                           [a |-> a2,
                            offset |-> [st.offset EXCEPT ![radix] = @ + 1]],
                           it + 1, last)

\* while (bucket.offset != next) for bucket p.
RECURSIVE DistributeBucket(_, _, _, _, _)
DistributeBucket(digit, begin, st, p, nxt) ==
    IF st.offset[p] = nxt[p] THEN st
    ELSE DistributeBucket(digit, begin,
                          DistributeRun(digit, begin, st, st.offset[p], nxt[p]),
                          p, nxt)

\* The in-place sort: for (p = buckets; p != buckets + BUCKET_SIZE &&
\* p->next != size; ++p).
RECURSIVE Distribute(_, _, _, _, _, _)
Distribute(digit, begin, size, st, p, nxt) ==
    IF p = BUCKET_SIZE \/ nxt[p] = size THEN st
    ELSE Distribute(digit, begin, size,
                    DistributeBucket(digit, begin, st, p, nxt), p + 1, nxt)

RECURSIVE radixSort(_, _, _, _)
RECURSIVE SortBuckets(_, _, _, _, _, _)
\* The last loop, from bucket b on: a bucket whose end is more than one element
\* after first is sorted on the next digit from first to its end, and only
\* then does first move to the end of the bucket.
SortBuckets(digit, a, begin, nxt, b, first) ==
    IF b = BUCKET_SIZE THEN a
    ELSE IF nxt[b] - first > 1
      THEN SortBuckets(digit,
                       radixSort(digit - 1, a, begin + first, begin + nxt[b]),
                       begin, nxt, b + 1, nxt[b])
      ELSE SortBuckets(digit, a, begin, nxt, b + 1, first)

\* RadixSort<Iterator, IndexType, digit>::radixSort(begin, end) on array a; the
\* specialization for digit 0 does nothing.
radixSort(digit, a, begin, end) ==
    IF digit = 0 THEN a
    ELSE IF end - begin <= StdSortMax THEN StdSort(a, begin, end)
    ELSE LET nxt == BucketNext(digit, a, begin, end)
             st == Distribute(digit, begin, end - begin,
                              [a |-> a,
                               offset |-> BucketOffset(digit, a, begin, end)],
                              0, nxt)
         IN  SortBuckets(digit, st.a, begin, nxt, 0, 0)

\* radix_sort(begin, end): the sort on the most significant digit.
radix_sort(a) == radixSort(SortDigits, a, 0, Len(a))

\* A caller sorts its range, possibly again.
RadixSortCall ==
    /\ sortCalls < MaxSortCalls
    /\ data' = radix_sort(data)
    /\ sortCalls' = sortCalls + 1
    /\ UNCHANGED <<streamVars, gltfVars, restVars>>

\* The command stream is not in use.
StreamIdle == StreamInit /\ callerArg = 0 /\ systrace = FALSE

InitSort ==
    /\ StreamIdle
    /\ data \in UNION {[1..n -> Values] : n \in 0..MaxLen}
    /\ sortCalls = 0
    /\ GltfIdle /\ RestIdle

NextSort == RadixSortCall

SpecSort == InitSort /\ [][NextSort]_vars

\* The recursive calls made by the last loop from bucket b on, and by the calls
\* they make: for each, the digit it sorts on, the bucket of the caller it was
\* made for, the range [begin, end) it was given, the range of that bucket,
\* and the values, at the time of the call, that the elements of the range
\* given have in the caller's digit.
RECURSIVE PassedDown(_, _, _, _)
RECURSIVE PassedDownFrom(_, _, _, _, _, _)
PassedDownFrom(digit, a, begin, nxt, b, first) ==
    IF b = BUCKET_SIZE THEN {}
    ELSE IF nxt[b] - first > 1
      THEN {[digit |-> digit - 1, bucket |-> b,
             begin |-> begin + first, end |-> begin + nxt[b],
             bucketBegin |-> begin + (IF b = 0 THEN 0 ELSE nxt[b - 1]),
             bucketEnd |-> begin + nxt[b],
             radixes |-> {getRadix(digit, a[i + 1]) :
                            i \in (begin + first)..(begin + nxt[b] - 1)}]}
           \cup PassedDown(digit - 1, a, begin + first, begin + nxt[b])
           \cup PassedDownFrom(digit,
                    radixSort(digit - 1, a, begin + first, begin + nxt[b]),
                    begin, nxt, b + 1, nxt[b])
      ELSE PassedDownFrom(digit, a, begin, nxt, b + 1, first)

\* The recursive calls made during radixSort(begin, end) on digit.
PassedDown(digit, a, begin, end) ==
    IF digit = 0 \/ end - begin <= StdSortMax THEN {}
    ELSE LET nxt == BucketNext(digit, a, begin, end)
             st == Distribute(digit, begin, end - begin,
                              [a |-> a,
                               offset |-> BucketOffset(digit, a, begin, end)],
                              0, nxt)
         IN  PassedDownFrom(digit, st.a, begin, nxt, 0, 0)

\* A caller sorts the part [begin, end) of its array.
RadixSortRange(begin, end) ==
    /\ sortCalls < MaxSortCalls
    /\ loop.pc = "idle"
    /\ data' = radixSort(SortDigits, data, begin, end)
    /\ sortCalls' = sortCalls + 1
    /\ sortLog' = [before |-> data, begin |-> begin, end |-> end,
                   passed |-> PassedDown(SortDigits, data, begin, end)]
    /\ UNCHANGED loop
    /\ UNCHANGED <<streamVars, gltfVars, materialVars, builderVars, threadVars>>

InitSortRange ==
    /\ StreamIdle
    /\ data \in UNION {[1..n -> Values] : n \in 0..MaxLen}
    /\ sortCalls = 0
    /\ GltfIdle /\ RestIdle

NextSortRange ==
    \E begin \in 0..Len(data) : \E end \in begin..Len(data) :
        RadixSortRange(begin, end)

SpecSortRange == InitSortRange /\ [][NextSortRange]_vars

\* The in-place distribution loop of radixSort (lines 72-87) on the whole of
\* data, one test or one turn of the innermost loop per step.  The counting
\* and prefix-sum loops have run: loop.offset and loop.next are the bucket
\* table they leave, loop.start the first index of each bucket.
LoopBegin(digit) ==
    /\ loop.pc = "idle" /\ sortCalls = 0
    /\ Len(data) > StdSortMax
    /\ loop' = [pc |-> "for", digit |-> digit, p |-> 0, it |-> 0, last |-> 0,
                offset |-> BucketOffset(digit, data, 0, Len(data)),
                next |-> BucketNext(digit, data, 0, Len(data)),
                start |-> BucketOffset(digit, data, 0, Len(data))]
    /\ UNCHANGED <<data, sortCalls, sortLog>>
    /\ UNCHANGED <<streamVars, gltfVars, materialVars, builderVars, threadVars>>

\* p != buckets + BUCKET_SIZE && p->next != size.
LoopFor ==
    /\ loop.pc = "for"
    /\ loop' = [loop EXCEPT !.pc =
                  IF loop.p # BUCKET_SIZE /\ loop.next[loop.p] # Len(data)
                    THEN "while" ELSE "done"]
    /\ UNCHANGED <<data, sortCalls, sortLog>>
    /\ UNCHANGED <<streamVars, gltfVars, materialVars, builderVars, threadVars>>

\* while (bucket.offset != next): the iterators of the inner loop are set, or
\* the outer loop moves to the next bucket.
LoopWhile ==
    /\ loop.pc = "while"
    /\ loop' = IF loop.offset[loop.p] # loop.next[loop.p]
                 THEN [loop EXCEPT !.pc = "inner",
                                   !.it = loop.offset[loop.p],
                                   !.last = loop.next[loop.p]]
                 ELSE [loop EXCEPT !.pc = "for", !.p = @ + 1]
    /\ UNCHANGED <<data, sortCalls, sortLog>>
    /\ UNCHANGED <<streamVars, gltfVars, materialVars, builderVars, threadVars>>

\* Mutant: the place taken in the bucket is not counted.
LoopInnerKeepsOffset ==
    /\ loop.pc = "inner"
    /\ IF loop.it = loop.last
         THEN loop' = [loop EXCEPT !.pc = "while"] /\ UNCHANGED data
         ELSE LET v == data[loop.it + 1]
                  radix == getRadix(loop.digit, v)
                  index == loop.offset[radix]
              IN  IF index >= Len(data)
                    THEN loop' = [loop EXCEPT !.pc = "undefined"]
                         /\ UNCHANGED data
                    ELSE /\ data' = [[data EXCEPT ![index + 1] = v]
                                        EXCEPT ![loop.it + 1] = data[index + 1]]
                         /\ loop' = [loop EXCEPT !.it = @ + 1]
    /\ UNCHANGED <<sortCalls, sortLog>>
    /\ UNCHANGED <<streamVars, gltfVars, materialVars, builderVars, threadVars>>

\* One turn of for (it = begin + offset; it != last; ++it): the element at it
\* is swapped with the one at the next free place of its bucket.  An index
\* outside the range would make the access undefined.
LoopInner ==
    /\ loop.pc = "inner"
    /\ IF loop.it = loop.last
         THEN loop' = [loop EXCEPT !.pc = "while"] /\ UNCHANGED data
         ELSE LET v == data[loop.it + 1]
                  radix == getRadix(loop.digit, v)
                  index == loop.offset[radix]
              IN  IF index >= Len(data)
                    THEN loop' = [loop EXCEPT !.pc = "undefined"]
                         /\ UNCHANGED data
                    ELSE /\ data' = [[data EXCEPT ![index + 1] = v]
                                        EXCEPT ![loop.it + 1] = data[index + 1]]
                         /\ loop' = [loop EXCEPT !.offset[radix] = @ + 1,
                                                 !.it = @ + 1]
    /\ UNCHANGED <<sortCalls, sortLog>>
    /\ UNCHANGED <<streamVars, gltfVars, materialVars, builderVars, threadVars>>

\* One statement of the loop.
LoopStep == LoopFor \/ LoopWhile \/ LoopInner

InitLoop ==
    /\ StreamIdle
    /\ data \in UNION {[1..n -> Values] : n \in 0..MaxLen}
    /\ sortCalls = 0
    /\ GltfIdle /\ RestIdle

NextLoop ==
    \/ \E digit \in 1..SortDigits : LoopBegin(digit)
    \/ LoopFor
    \/ LoopWhile
    \/ LoopInner

SpecLoop == InitLoop /\ [][NextLoop]_vars

\* The thread that runs radixSort goes on to its next statement.
SpecLoopLive == SpecLoop /\ WF_vars(LoopStep)

\* --------------------------------------------------------------- gltfio
\* A loader (ResourceLoader or BindingHelper) with its upload-tracking pool
\* (AssetPool or UrlCache), and the asset it loads.  Each method of the pool
\* and each release callback runs to completion as one step.

\* Most buffer bindings of the asset.
MaxBindings == 2
\* Most calls of loadResources on the loader.
MaxLoads == 2

Loaders == {"ResourceLoader", "BindingHelper"}
Destinations ==
    {"vertexBuffer", "indexBuffer", "orientationBuffer", "animationBuffer"}
\* A BufferBinding whose destination d is the one that is not null.
BindingTo(d) == [f \in Destinations |-> f = d]
BufferBindings == {BindingTo(d) : d \in Destinations}

\* What ResourceLoader::loadResources does for binding bb.
ResourceLoaderCall(bb) ==
    IF bb.vertexBuffer THEN "setBufferAt"
    ELSE IF bb.indexBuffer THEN "setBuffer"
    ELSE IF bb.animationBuffer THEN "memcpyAnimation"
    ELSE IF bb.orientationBuffer THEN "memcpyOrientation"
    ELSE "malformed"

\* What BindingHelper::loadResources does for binding bb.
BindingHelperCall(bb) ==
    IF bb.vertexBuffer THEN "setBufferAt"
    ELSE IF bb.indexBuffer THEN "setBuffer"
    ELSE IF bb.animationBuffer THEN "memcpyAnimation"
    ELSE "malformed"

LoaderCall(bb) ==
    IF loader = "ResourceLoader" THEN ResourceLoaderCall(bb)
    ELSE BindingHelperCall(bb)

\* The calls that move a buffer descriptor, with the pool's callback, into the
\* engine.
Uploads == {"setBufferAt", "setBuffer"}

\* loadResources is entered.  ResourceLoader first reads the buffers of the
\* asset and returns false when that fails.
LoadResourcesBegin ==
    /\ ownerAlive /\ lpc = "idle" /\ loads < MaxLoads
    /\ loads' = loads + 1
    /\ effects' = <<>>
    /\ \E loaded \in (IF loader = "ResourceLoader" THEN BOOLEAN ELSE {TRUE}) :
          IF loaded
            THEN lpc' = "loading" /\ bi' = 1 /\ result' = "none"
            ELSE lpc' = "idle" /\ bi' = 0 /\ result' = "false"
    /\ UNCHANGED <<poolVars, assetVars, streamVars, sortVars,
                   restVars>>

\* Mutant: the descriptor is moved into the engine before the count is raised.
UploadStepsHandFirst == <<"setBuffer", "addPendingUpload">>
\* The two statements of an upload branch of the loop, in program order:
\* addPendingUpload(), then the descriptor is built and moved into the engine.
UploadSteps == <<"addPendingUpload", "setBuffer">>

\* One statement of an upload branch.
UploadStatement(st) ==
    IF st = "addPendingUpload"
      THEN /\ mPendingUploads' = mPendingUploads + 1
           /\ poolUB' = (poolUB \/ poolDeletes > 0)
           /\ UNCHANGED handed
      ELSE /\ handed' = handed + 1
           /\ UNCHANGED <<mPendingUploads, poolUB>>

\* One turn of the loop over the bindings, up to the first statement of an
\* upload branch.  BindingHelper first obtains the
\* blob of the binding's uri and returns false when it cannot.
LoadBinding ==
    /\ lpc = "loading" /\ bi <= Len(bindings)
    /\ \E found \in (IF loader = "BindingHelper" THEN BOOLEAN ELSE {TRUE}) :
          LET call == LoaderCall(bindings[bi])
          IN  IF ~found
                THEN /\ lpc' = "idle" /\ result' = "false"
                     /\ UNCHANGED <<bi, effects, mPendingUploads, handed, poolUB>>
                ELSE IF call \in Uploads
                THEN /\ UploadStatement(UploadSteps[1])
                     /\ lpc' = "uploading"
                     /\ UNCHANGED <<bi, effects, result>>
                ELSE /\ effects' = Append(effects, [binding |-> bi, call |-> call])
                     /\ UNCHANGED <<mPendingUploads, handed, poolUB>>
                     /\ IF call = "malformed"
                          THEN lpc' = "idle" /\ result' = "false" /\ UNCHANGED bi
                          ELSE bi' = bi + 1 /\ UNCHANGED <<lpc, result>>
    /\ UNCHANGED <<loader, ownerAlive, mLoaderDestroyed, poolDeletes, delivered,
                   loads>>
    /\ UNCHANGED <<assetVars, streamVars, sortVars,
                   restVars>>

\* The second statement of an upload branch, and the end of the turn.
LoadBindingUpload ==
    /\ lpc = "uploading"
    /\ UploadStatement(UploadSteps[2])
    /\ effects' = Append(effects, [binding |-> bi,
                                   call |-> LoaderCall(bindings[bi])])
    /\ lpc' = "loading" /\ bi' = bi + 1
    /\ UNCHANGED <<loader, ownerAlive, mLoaderDestroyed, poolDeletes, delivered,
                   loads, result>>
    /\ UNCHANGED <<assetVars, streamVars, sortVars,
                   restVars>>

\* The loop is over: BindingHelper returns true, ResourceLoader what
\* createTextures returns.
LoadResourcesEnd ==
    /\ lpc = "loading" /\ bi > Len(bindings)
    /\ lpc' = "idle"
    /\ result' \in (IF loader = "ResourceLoader" THEN {"true", "false"}
                     ELSE {"true"})
    /\ UNCHANGED <<bi, loads, effects>>
    /\ UNCHANGED <<poolVars, assetVars, streamVars, sortVars,
                   restVars>>

\* Mutant: the callback deletes the pool as soon as nothing is pending.
DeletesOnLoadedIgnoringOwner(count, destroyed) == count = 0
\* The test of onLoadedResource, on the decremented count.
DeletesOnLoaded(count, destroyed) == count = 0 /\ destroyed

\* The engine runs the release callback of one descriptor: onLoadedResource.
OnLoadedResource ==
    /\ delivered < handed
    /\ delivered' = delivered + 1
    /\ mPendingUploads' = mPendingUploads - 1
    /\ poolUB' = (poolUB \/ poolDeletes > 0)
    /\ poolDeletes' = IF DeletesOnLoaded(mPendingUploads - 1, mLoaderDestroyed)
                        THEN poolDeletes + 1 ELSE poolDeletes
    /\ UNCHANGED <<loader, ownerAlive, mLoaderDestroyed, handed>>
    /\ UNCHANGED <<loadVars, assetVars, streamVars, sortVars,
                   restVars>>

\* Mutant: the loader's destructor only raises the flag.
OnOwnerDestroyedFlagOnly ==
    /\ mLoaderDestroyed' = TRUE
    /\ UNCHANGED <<poolDeletes, poolUB>>
\* onLoaderDestroyed (AssetPool), onOwnerDestroyed (UrlCache).
OnOwnerDestroyed ==
    /\ IF mPendingUploads = 0
         THEN poolDeletes' = poolDeletes + 1 /\ UNCHANGED mLoaderDestroyed
         ELSE mLoaderDestroyed' = TRUE /\ UNCHANGED poolDeletes
    /\ poolUB' = (poolUB \/ poolDeletes > 0)

\* ~ResourceLoader, ~BindingHelper: the client destroys the loader.
DestroyLoader ==
    /\ ownerAlive /\ lpc = "idle"
    /\ ownerAlive' = FALSE
    /\ OnOwnerDestroyed
    /\ UNCHANGED <<loader, mPendingUploads, handed, delivered>>
    /\ UNCHANGED <<loadVars, assetVars, streamVars, sortVars,
                   restVars>>

InitLoader ==
    /\ StreamIdle /\ SortIdle
    /\ loader \in Loaders
    /\ bindings \in UNION {[1..n -> BufferBindings] : n \in 0..MaxBindings}
    /\ PoolInit /\ AssetInit /\ RestIdle

NextLoader ==
    \/ LoadResourcesBegin
    \/ LoadBinding
    \/ LoadBindingUpload
    \/ LoadResourcesEnd
    \/ OnLoadedResource
    \/ DestroyLoader

SpecLoader == InitLoader /\ [][NextLoader]_vars

\* The engine consumes every descriptor moved into it and then runs its
\* release callback: a callback that is due is not put off for ever.
SpecLoaderLive == SpecLoader /\ WF_vars(OnLoadedResource)

\* The pool with its two callers on different threads: the engine runs the
\* release callbacks on its own thread while the client's thread loads and
\* destroys the loader.  mPendingUploads is an int and the flag a bool, with no
\* lock and no atomic: each read and each write of them is a step of its own.
\* A read of the deleted pool yields any value.

\* The pool object is gone: every access to it is a use after free.
Deleted == poolDeletes > 0

\* onLoadedResource, --pool->mPendingUploads: the count is read.
CallbackRead ==
    /\ callbackThread.pc = "outside" /\ delivered < handed
    /\ delivered' = delivered + 1
    /\ \E seen \in (IF Deleted THEN 0..MaxBindings * MaxLoads
                    ELSE {mPendingUploads}) :
          callbackThread' = [pc |-> "read", seen |-> seen]
    /\ poolUB' = (poolUB \/ Deleted)
    /\ UNCHANGED <<loader, ownerAlive, mPendingUploads, mLoaderDestroyed,
                   poolDeletes, handed, ownerThread>>
    /\ UNCHANGED <<loadVars, assetVars, streamVars, sortVars>>
    /\ UNCHANGED <<materialVars, builderVars, sortStepVars>>

\* onLoadedResource, --pool->mPendingUploads: the count less one is written.
CallbackWrite ==
    /\ callbackThread.pc = "read"
    /\ mPendingUploads' = callbackThread.seen - 1
    /\ callbackThread' = [pc |-> "written", seen |-> callbackThread.seen - 1]
    /\ poolUB' = (poolUB \/ Deleted)
    /\ UNCHANGED <<loader, ownerAlive, mLoaderDestroyed, poolDeletes, handed,
                   delivered, ownerThread>>
    /\ UNCHANGED <<loadVars, assetVars, streamVars, sortVars>>
    /\ UNCHANGED <<materialVars, builderVars, sortStepVars>>

\* onLoadedResource, == 0 && pool->mLoaderDestroyed: the flag is read only
\* when the count has become 0; delete pool when both hold.
CallbackTest ==
    /\ callbackThread.pc = "written"
    /\ callbackThread' = Outside
    /\ IF callbackThread.seen = 0
         THEN \E flag \in (IF Deleted THEN BOOLEAN ELSE {mLoaderDestroyed}) :
                 /\ poolUB' = (poolUB \/ Deleted)
                 /\ poolDeletes' = IF flag THEN poolDeletes + 1 ELSE poolDeletes
         ELSE UNCHANGED <<poolUB, poolDeletes>>
    /\ UNCHANGED <<loader, ownerAlive, mPendingUploads, mLoaderDestroyed,
                   handed, delivered, ownerThread>>
    /\ UNCHANGED <<loadVars, assetVars, streamVars, sortVars>>
    /\ UNCHANGED <<materialVars, builderVars, sortStepVars>>

\* ~ResourceLoader, ~BindingHelper enter onLoaderDestroyed, onOwnerDestroyed:
\* mPendingUploads is read.
OwnerDestroyedRead ==
    /\ ownerAlive /\ lpc = "idle" /\ ownerThread.pc = "outside"
    /\ ownerAlive' = FALSE
    /\ \E seen \in (IF Deleted THEN 0..MaxBindings * MaxLoads
                    ELSE {mPendingUploads}) :
          ownerThread' = [pc |-> "read", seen |-> seen]
    /\ poolUB' = (poolUB \/ Deleted)
    /\ UNCHANGED <<loader, mPendingUploads, mLoaderDestroyed, poolDeletes,
                   handed, delivered, callbackThread>>
    /\ UNCHANGED <<loadVars, assetVars, streamVars, sortVars>>
    /\ UNCHANGED <<materialVars, builderVars, sortStepVars>>

\* onLoaderDestroyed, onOwnerDestroyed: delete this when the count read was 0,
\* else the flag is raised.
OwnerDestroyedAct ==
    /\ ownerThread.pc = "read"
    /\ ownerThread' = Outside
    /\ IF ownerThread.seen = 0
         THEN /\ poolDeletes' = poolDeletes + 1
              /\ UNCHANGED <<mLoaderDestroyed, poolUB>>
         ELSE /\ mLoaderDestroyed' = TRUE
              /\ poolUB' = (poolUB \/ Deleted)
              /\ UNCHANGED poolDeletes
    /\ UNCHANGED <<loader, ownerAlive, mPendingUploads, handed, delivered,
                   callbackThread>>
    /\ UNCHANGED <<loadVars, assetVars, streamVars, sortVars>>
    /\ UNCHANGED <<materialVars, builderVars, sortStepVars>>

InitThreads ==
    /\ StreamIdle /\ SortIdle
    /\ loader \in Loaders
    /\ bindings \in UNION {[1..n -> BufferBindings] : n \in 0..MaxBindings}
    /\ PoolInit /\ AssetInit /\ RestIdle

NextThreads ==
    \/ LoadResourcesBegin
    \/ LoadBinding
    \/ LoadBindingUpload
    \/ LoadResourcesEnd
    \/ CallbackRead
    \/ CallbackWrite
    \/ CallbackTest
    \/ OwnerDestroyedRead
    \/ OwnerDestroyedAct

SpecThreads == InitThreads /\ [][NextThreads]_vars

\* Most calls of createAnimator on the asset.
MaxAnimatorCalls == 4

\* Mutant: every call constructs a new Animator.
CreateAnimatorAlwaysNew ==
    /\ assetAlive /\ animatorCalls < MaxAnimatorCalls
    /\ animatorCalls' = animatorCalls + 1
    /\ mAnimator' = animatorsCreated + 1
    /\ animatorsCreated' = animatorsCreated + 1
    /\ animators' = animators \cup {animatorsCreated + 1}
    /\ returned' = mAnimator'
    /\ UNCHANGED <<bindings, assetAlive>>
    /\ UNCHANGED <<poolVars, loadVars, streamVars, sortVars,
                   restVars>>

\* FFilamentAsset::createAnimator: a new Animator only when mAnimator is null.
CreateAnimator ==
    /\ assetAlive /\ animatorCalls < MaxAnimatorCalls
    /\ animatorCalls' = animatorCalls + 1
    /\ IF mAnimator = 0
         THEN /\ mAnimator' = animatorsCreated + 1
              /\ animatorsCreated' = animatorsCreated + 1
              /\ animators' = animators \cup {animatorsCreated + 1}
         ELSE UNCHANGED <<mAnimator, animatorsCreated, animators>>
    /\ returned' = mAnimator'
    /\ UNCHANGED <<bindings, assetAlive>>
    /\ UNCHANGED <<poolVars, loadVars, streamVars, sortVars,
                   restVars>>

\* FFilamentAsset::releaseSourceData: the binding lists are emptied.
ReleaseSourceData ==
    /\ assetAlive /\ bindings # <<>>
    /\ bindings' = <<>>
    /\ UNCHANGED <<assetAlive, mAnimator, animators, animatorsCreated,
                   animatorCalls, returned>>
    /\ UNCHANGED <<poolVars, loadVars, streamVars, sortVars,
                   restVars>>

\* ~FFilamentAsset: the source data is released and mAnimator deleted.
DestroyAsset ==
    /\ assetAlive
    /\ assetAlive' = FALSE
    /\ bindings' = <<>>
    /\ animators' = animators \ {mAnimator}
    /\ UNCHANGED <<mAnimator, animatorsCreated, animatorCalls, returned>>
    /\ UNCHANGED <<poolVars, loadVars, streamVars, sortVars,
                   restVars>>

InitAsset ==
    /\ StreamIdle /\ SortIdle
    /\ loader = "ResourceLoader"
    /\ bindings \in UNION {[1..n -> BufferBindings] : n \in 0..MaxBindings}
    /\ PoolInit /\ AssetInit /\ RestIdle

NextAsset ==
    \/ CreateAnimator
    \/ ReleaseSourceData
    \/ DestroyAsset

SpecAsset == InitAsset /\ [][NextAsset]_vars

\* ---------------------------------------------------- material generator
\* gltfio's MaterialGenerator: a cache from MaterialKey to Material.  Of the
\* key, the fields of two of its five textures are kept (the has-texture flag
\* and the UV set of the base colour and of the normal map); the other three
\* textures are treated by the code exactly as these two, and the remaining
\* fields are compared by EqualFn and never written.

\* Most calls made on one generator.
MaxMaterialCalls == 3

\* The UV set a texture reads: 0 and 1 are supported, 2 stands for every
\* index above 1.
UVSets == 0..2
MaterialKeys ==
    [hasBaseColorTexture : BOOLEAN, hasNormalTexture : BOOLEAN,
     baseColorUV : UVSets, normalUV : UVSets]

\* MaterialGenerator::EqualFn: field by field.
EqualFn(k1, k2) ==
    /\ k1.hasBaseColorTexture = k2.hasBaseColorTexture
    /\ k1.hasNormalTexture = k2.hasNormalTexture
    /\ k1.baseColorUV = k2.baseColorUV
    /\ k1.normalUV = k2.normalUV

\* std::max over the UV sets of the key.
maxUVIndex(config) ==
    IF config.baseColorUV >= config.normalUV THEN config.baseColorUV
    ELSE config.normalUV

\* The key as createMaterial leaves it: with more than two UV sets in use, a
\* texture that reads a set above 1 is dropped.
createMaterial(config) ==
    IF maxUVIndex(config) > 1
      THEN [config EXCEPT
              !.hasBaseColorTexture = IF config.baseColorUV > 1 THEN FALSE ELSE @,
              !.hasNormalTexture = IF config.normalUV > 1 THEN FALSE ELSE @]
      ELSE config

\* mCache.find(key): the entries whose key equals key (none or one).
Find(key) == {e \in mCache : EqualFn(e.key, key)}

\* mCache.emplace(key, mat): nothing is inserted when an equal key is present.
Emplace(key, mat) ==
    IF Find(key) # {} THEN mCache ELSE mCache \cup {[key |-> key, mat |-> mat]}

\* The materials ever built are numbered from 1.
MaterialsBuilt ==
    Cardinality({i \in 1..Len(materialCalls) :
                    materialCalls[i].op = "get" /\ materialCalls[i].created})

\* MaterialGenerator::getOrCreateMaterial(config): looked up with the key as
\* passed; on a miss the material is built, which may write the key, and the
\* entry is emplaced under the key as it then is.
GetOrCreateMaterial(config) ==
    /\ Len(materialCalls) < MaxMaterialCalls
    /\ LET iter == Find(config)
       IN  IF iter = {}
             THEN LET mat == MaterialsBuilt + 1
                      key == createMaterial(config)
                  IN  /\ mCache' = Emplace(key, mat)
                      /\ mMaterials' = Append(mMaterials, mat)
                      /\ materialCalls' = Append(materialCalls,
                            [op |-> "get", passed |-> config, left |-> key,
                             mat |-> mat, created |-> TRUE])
             ELSE /\ materialCalls' = Append(materialCalls,
                        [op |-> "get", passed |-> config, left |-> config,
                         mat |-> (CHOOSE e \in iter : TRUE).mat,
                         created |-> FALSE])
                  /\ UNCHANGED <<mCache, mMaterials>>
    /\ UNCHANGED <<streamVars, sortVars, gltfVars, builderVars, sortStepVars,
                   threadVars>>

\* MaterialGenerator::destroyMaterials: the cached materials are destroyed and
\* both containers cleared.
DestroyMaterials ==
    /\ Len(materialCalls) < MaxMaterialCalls
    /\ mCache' = {}
    /\ mMaterials' = <<>>
    /\ materialCalls' = Append(materialCalls,
          [op |-> "destroy", passed |-> 0, left |-> 0, mat |-> 0,
           created |-> FALSE])
    /\ UNCHANGED <<streamVars, sortVars, gltfVars, builderVars, sortStepVars,
                   threadVars>>

InitMaterial ==
    /\ StreamIdle /\ SortIdle /\ GltfIdle
    /\ MaterialInit /\ BuilderInit /\ SortStepIdle /\ ThreadsIdle

NextMaterial ==
    \/ \E config \in MaterialKeys : GetOrCreateMaterial(config)
    \/ DestroyMaterials

SpecMaterial == InitMaterial /\ [][NextMaterial]_vars

\* --------------------------------------------------- surface orientation
\* geometry::SurfaceOrientation::Builder.  A pointer argument is NULL or an
\* address (one of two for the indices); the stride setters, which only store a number the build
\* paths use to step through their input, are left out.  A failed
\* ASSERT_PRECONDITION ends the call at the assertion: no later statement of
\* the function runs, and no further call is made on the builder.

Pointers == {NULL, 1}
IndexPointers == {NULL, 1, 2}
VertexCounts == 0..2

\* The call ends normally and the builder may be used again.
Usable == panicked = "none"

\* A setter that stores its argument in field f: vertexCount, normals,
\* tangents, uvs, positions.
Setters == {"vertexCount", "normals", "tangents", "uvs", "positions"}
ArgsOf(f) == IF f = "vertexCount" THEN VertexCounts ELSE Pointers
Set(f, v) ==
    /\ Usable
    /\ mImpl' = [mImpl EXCEPT ![f] = v]
    /\ lastCall' = [op |-> f, arg |-> v, before |-> Indices(mImpl)]
    /\ UNCHANGED <<panicked, orientation, supplied>>
    /\ UNCHANGED <<streamVars, sortVars, gltfVars, materialVars, sortStepVars,
                   threadVars>>

\* The field holding the indices of the other width.
OtherWidth(f) == IF f = "triangles32" THEN "triangles16" ELSE "triangles32"

\* Mutant: triangles stores its argument whatever the builder holds.
TrianglesPreconditionNone(other) == TRUE
\* The condition asserted by both overloads of triangles, on the pointer
\* stored for the other width.
TrianglesPrecondition(other) == other = NULL

\* Builder::triangles(const uint3*) for f = "triangles32",
\* Builder::triangles(const ushort3*) for f = "triangles16".
Triangles(f, p) ==
    /\ Usable
    /\ lastCall' = [op |-> f, arg |-> p, before |-> Indices(mImpl)]
    /\ IF TrianglesPrecondition(mImpl[OtherWidth(f)])
         THEN /\ mImpl' = [mImpl EXCEPT ![f] = p]
              /\ supplied' = IF p # NULL THEN supplied \cup {f} ELSE supplied
              /\ UNCHANGED panicked
         ELSE /\ panicked' = "Triangles already supplied."
              /\ UNCHANGED <<mImpl, supplied>>
    /\ UNCHANGED orientation
    /\ UNCHANGED <<streamVars, sortVars, gltfVars, materialVars, sortStepVars,
                   threadVars>>

\* Mutant: the path taken by build with the test on the UVs before the test
\* on the tangents.
BuildPathUvsFirst(b) ==
    IF b.normals = NULL THEN "Normals are required."
    ELSE IF ~(b.vertexCount > 0) THEN "Vertex count must be non-zero."
    ELSE IF b.uvs = NULL THEN "buildWithNormalsOnly"
    ELSE IF b.tangents # NULL THEN "buildWithSuppliedTangents"
    ELSE IF ~((b.triangles16 # NULL \/ b.triangles32 # NULL)
                /\ b.positions # NULL)
      THEN "When using UVs, positions and triangles are required."
    ELSE "buildWithUvs"

\* Builder::build, as far as its tests go: the message of the precondition
\* that fails, else the function it returns the result of.
BuildPath(b) ==
    IF b.normals = NULL THEN "Normals are required."
    ELSE IF ~(b.vertexCount > 0) THEN "Vertex count must be non-zero."
    ELSE IF b.tangents # NULL THEN "buildWithSuppliedTangents"
    ELSE IF b.uvs = NULL THEN "buildWithNormalsOnly"
    ELSE IF ~((b.triangles16 # NULL \/ b.triangles32 # NULL)
                /\ b.positions # NULL)
      THEN "When using UVs, positions and triangles are required."
    ELSE "buildWithUvs"

BuildPaths ==
    {"buildWithSuppliedTangents", "buildWithNormalsOnly", "buildWithUvs"}

\* Each of the three functions fills vector<quatf> quats(vertexCount) and
\* moves it into the new object: quaternions.size() of the result.
QuaternionsSize(b) == b.vertexCount

\* Builder::build.  The result is recorded with the function that made it
\* and with what getVertexCount returns on it.
Build ==
    /\ Usable
    /\ lastCall' = [op |-> "build", arg |-> 0, before |-> Indices(mImpl)]
    /\ LET path == BuildPath(mImpl)
       IN  IF path \in BuildPaths
             THEN /\ orientation' = [by |-> path,
                                     getVertexCount |-> QuaternionsSize(mImpl)]
                  /\ UNCHANGED panicked
             ELSE /\ panicked' = path
                  /\ UNCHANGED orientation
    /\ UNCHANGED <<mImpl, supplied>>
    /\ UNCHANGED <<streamVars, sortVars, gltfVars, materialVars, sortStepVars,
                   threadVars>>

InitBuilder ==
    /\ StreamIdle /\ SortIdle /\ GltfIdle
    /\ MaterialInit /\ BuilderInit /\ SortStepIdle /\ ThreadsIdle

NextBuilder ==
    \/ \E f \in Setters : \E v \in ArgsOf(f) : Set(f, v)
    \/ \E f \in {"triangles32", "triangles16"} : \E p \in IndexPointers :
          Triangles(f, p)
    \/ Build

SpecBuilder == InitBuilder /\ [][NextBuilder]_vars

\* ------------------------------------------------------ shared notions
\* Indices of the commands (typed and custom), in the order they were enqueued.
CommandSeq ==
    SelectSeq([i \in 1..Len(recs) |-> i], LAMBDA i : recs[i].kind # "noop")
\* The commands placed before absolute position p.
CommandsBefore(p) == {i \in 1..Len(recs) : recs[i].kind # "noop" /\ recs[i].pos < p}
\* The records of the slice that execute is walking or has just walked.
InSlice(i) ==
    /\ pending # <<>>
    /\ Head(pending).start <= recs[i].pos /\ recs[i].pos < Head(pending).end

\* ------------------------------------------------------------ claims
\* C1: one execute of a slice invokes its commands (typed and custom mixed) in
\* the order they were enqueued, each once, and nothing else: the invocation
\* trace is always a prefix of the enqueue order, during a walk it only holds
\* commands up to the end of the slice, and when execute returns it holds
\* exactly the commands enqueued up to there.
C1_FifoOrder ==
    /\ ~ub
    /\ Len(trace) <= Len(CommandSeq)
    /\ \A k \in 1..Len(trace) :
          /\ trace[k].id = CommandSeq[k]
          /\ trace[k].op = recs[trace[k].id].kind
    /\ cpc = "idle" => Len(trace) = Cardinality(CommandsBefore(R))
    /\ cpc \in {"loop", "exec"} =>
          /\ Len(trace) >= Cardinality(CommandsBefore(Head(pending).start))
          /\ Len(trace) <= Cardinality(CommandsBefore(Head(pending).end))
    /\ cpc = "returned" =>
          Len(trace) = Cardinality(CommandsBefore(Head(pending).end))

\* C1 witness: execute has returned from a slice in which a typed command, a
\* custom command and a typed command were enqueued in that order.
C1_Witness ==
    /\ cpc = "returned"
    /\ \E k \in 1..Len(trace) :
          /\ k + 2 <= Len(trace)
          /\ trace[k].op \in TypedOps /\ InSlice(trace[k].id)
          /\ trace[k + 1].op = "custom"
          /\ trace[k + 2].op \in TypedOps /\ InSlice(trace[k + 2].id)

\* Times the walk invoked record i.
Invocations(i) == Cardinality({k \in 1..Len(trace) : trace[k].id = i})
TypedRecords == {i \in 1..Len(recs) : recs[i].kind \in TypedOps}
CustomRecords == {i \in 1..Len(recs) : recs[i].kind = "custom"}

C3_AlignedAdvance ==
    /\ \A i \in 1..Len(recs) : recs[i].inv <= 1
    /\ (cpc = "loop" /\ base # NULL) =>
          /\ base % Alignment = 0
          /\ RecordAt(base) # 0
          /\ InSlice(RecordAt(base))
          /\ recs[RecordAt(base)].inv = 0
          /\ \A j \in 1..Len(recs) :
                j < RecordAt(base) => recs[j].inv = 1
    /\ cpc = "returned" =>
          /\ base = NULL
          /\ \A i \in 1..Len(recs) : InSlice(i) => recs[i].inv = 1

\* C3 witness: the walk has just left a custom command and stands on the typed
\* command enqueued right after it.
C3_Witness ==
    /\ cpc = "loop" /\ base # NULL /\ cur # 0
    /\ recs[cur].kind = "custom" /\ recs[cur].des = 1
    /\ RecordAt(base) = cur + 1
    /\ recs[cur + 1].kind \in TypedOps

\* C4: a custom command's callable is invoked at most once, destructed at most
\* once and never destructed before it was invoked; once the command's execute
\* has run its statements the callable was invoked once, then destructed once.
C4_CustomOnceThenDestruct ==
    \A i \in CustomRecords :
        /\ recs[i].inv <= 1
        /\ recs[i].des <= recs[i].inv
        /\ Invocations(i) = recs[i].inv
        /\ (cpc = "exec" /\ cur = i /\ step > Len(StepsOf("custom"))) =>
              (recs[i].inv = 1 /\ recs[i].des = 1)
        /\ recs[i].state = "destructed" <=> recs[i].des = 1

\* C4 witness: a custom command's execute has just run all its statements.
C4_Witness ==
    /\ cpc = "exec" /\ cur \in CustomRecords
    /\ step > Len(StepsOf("custom"))
    /\ recs[cur].inv = 1 /\ recs[cur].des = 1

UploadRecords == {i \in 1..Len(recs) : recs[i].kind = "loadVertexBuffer"}
\* Record i belongs to a slice execute has returned from.
Drained(i) == (cpc = "returned" /\ InSlice(i)) \/ recs[i].pos < R

\* C5: the release callback of a buffer descriptor moved into a call runs at
\* most once and never before the record's execute has invoked the driver
\* method; once the record's slice is drained the callback has run exactly
\* once, unless the driver still keeps the descriptor, and it has run exactly
\* once by the time the stream is torn down.
C5_ReleaseOnce ==
    \A i \in UploadRecords :
        /\ recs[i].cb <= 1
        /\ recs[i].cb = 1 => recs[i].inv = 1
        /\ recs[i].cb = 1 <=> recs[i].bd = "released"
        /\ Drained(i) => (recs[i].bd = "driver" \/ recs[i].cb = 1)
        /\ torn => recs[i].cb = 1

\* C5 witness: a buffer upload was executed, the driver kept the descriptor and
\* released it later: the callback has run once and the slice is reclaimed.
C5_Witness ==
    \E i \in UploadRecords :
        /\ recs[i].pos < R /\ recs[i].cb = 1 /\ recs[i].state = "destructed"
        /\ cpc = "idle"

LegalMove(a, b) ==
    \/ a = b
    \/ a = "allocated" /\ b = "constructed"
    \/ a = "constructed" /\ b = "destructed"

\* C7: in every step each record keeps its state or moves from allocated to
\* constructed or from constructed to destructed; it is executed only while
\* constructed and not executed before, it is destructed only once executed, a
\* new record starts allocated (a marker: constructed) and unexecuted, and a
\* record leaves the arena (slice released, arena reset) only when destructed.
C7_RecordLifecycle ==
    [][ /\ \A i \in 1..Len(recs) :
              IF i <= Len(recs')
                THEN /\ recs'[i].kind = recs[i].kind
                     /\ recs'[i].pos = recs[i].pos
                     /\ LegalMove(recs[i].state, recs'[i].state)
                     /\ recs'[i].inv # recs[i].inv =>
                           /\ recs[i].state = "constructed"
                           /\ recs[i].inv = 0 /\ recs'[i].inv = 1
                     /\ recs'[i].state = "destructed" => recs'[i].inv = 1
                ELSE recs[i].state = "destructed"
        /\ \A i \in (Len(recs) + 1)..Len(recs') :
              /\ recs'[i].inv = 0 /\ recs'[i].des = 0
              /\ \/ recs'[i].state = "allocated"
                 \/ recs'[i].state = "constructed" /\ recs'[i].kind = "noop"
        /\ R' # R =>
              \A i \in 1..Len(recs') :
                  recs'[i].pos < R' => recs'[i].state = "destructed"
      ]_vars

\* C7 witness: the arena holds a destructed record, a constructed record and an
\* allocated, not yet constructed record at the same time.
C7_Witness ==
    /\ \E i \in 1..Len(recs) : recs[i].state = "destructed" /\ recs[i].inv = 1
    /\ \E i \in 1..Len(recs) : recs[i].state = "constructed"
    /\ \E i \in 1..Len(recs) : recs[i].state = "allocated"

\* A marker whose next leads to the first byte of the arena.
IsSkipMarker(r) == r.kind = "noop" /\ Addr(r.pos) + r.next = ArenaBase

\* C8: an enqueue of a record larger than the contiguous tail puts a skip
\* marker at the old cursor and the record at offset 0, the cursor ending right
\* after it; when the walk leaves a skip marker it stands on the live record at
\* offset 0; the walk never stands on bytes that are no live record.
C8_Wraparound ==
    [][ /\ (/\ Len(recs') > Len(recs)
            /\ W' - recs'[Len(recs')].pos > Capacity - Offset(W)) =>
              /\ Len(recs') = Len(recs) + 2
              /\ recs'[Len(recs) + 1].pos = W
              /\ recs'[Len(recs) + 1].state = "constructed"
              /\ IsSkipMarker(recs'[Len(recs) + 1])
              /\ Offset(recs'[Len(recs')].pos) = 0
              /\ recs'[Len(recs')].pos = W + (Capacity - Offset(W))
        /\ (cpc = "exec" /\ cpc' = "loop" /\ IsSkipMarker(recs[cur])) =>
              /\ base' = ArenaBase
              /\ recs[cur].inv = 1
        /\ (cpc' = "loop" /\ base' # NULL) => (RecordAt(base) # 0)'
        /\ ~ub'
      ]_vars

\* C8 witness: the walk has followed a skip marker that is not at offset 0 and
\* stands on the record enqueued at offset 0 after the wrap.
C8_Witness ==
    /\ cpc = "loop" /\ cur # 0 /\ base = ArenaBase
    /\ IsSkipMarker(recs[cur]) /\ Offset(recs[cur].pos) # 0
    /\ recs[cur].inv = 1
    /\ RecordAt(base) = cur + 1
    /\ recs[cur + 1].kind # "noop"

Live(i) == recs[i].state \in {"allocated", "constructed"}
SpanEnd(i) == Addr(recs[i].pos) + Sizeof(recs[i].kind)

\* C9: the spans of the records not yet executed lie inside the arena and are
\* pairwise disjoint, the cursor never passes the released bytes by more than
\* the capacity, and a capacity error is raised exactly for a request that can
\* be placed neither at the cursor nor at offset 0 without passing the end of
\* the arena or reaching bytes not yet released; the producer is then stopped
\* with no record of the failed call in the arena.
C9_CapacityError ==
    /\ W - R <= Capacity
    /\ \A i \in 1..Len(recs) :
          Live(i) =>
              /\ SpanEnd(i) <= ArenaBase + Capacity
              /\ \A j \in 1..Len(recs) :
                    (Live(j) /\ j # i) =>
                        \/ SpanEnd(i) <= Addr(recs[j].pos)
                        \/ SpanEnd(j) <= Addr(recs[i].pos)
    /\ fatal # 0 =>
          /\ ppc = "idle"
          /\ ~(/\ Offset(W) + fatal + NoopSize <= Capacity
               /\ W + fatal - R <= Capacity)
          /\ ~(/\ fatal + NoopSize <= Capacity
               /\ W + (Capacity - Offset(W)) + fatal - R <= Capacity)

\* C9 witness: a capacity error was raised while a constructed record was
\* waiting to be executed.
C9_Witness ==
    /\ fatal # 0
    /\ \E i \in 1..Len(recs) :
          recs[i].state = "constructed" /\ recs[i].inv = 0
          /\ recs[i].kind # "noop"

\* C10: no record and no invocation of the walk is ever one of a synchronous
\* operation, and the step in which a synchronous operation is called invokes
\* the driver method with the caller's argument and leaves the records, the
\* cursors and the flushed slices as they were.
C10_SynchronousBypass ==
    /\ [](/\ \A i \in 1..Len(recs) : recs[i].kind \notin SyncOps
          /\ \A k \in 1..Len(trace) : trace[k].op \notin SyncOps
          /\ direct # NoCall => direct.op \in SyncOps)
    /\ [][ (direct' # direct /\ direct' # NoCall) =>
              /\ direct' = [op |-> direct'.op, arg |-> callerArg]
              /\ UNCHANGED <<recs, W, R, sliceStart, pending, trace>>
         ]_vars

\* C10 witness: a synchronous operation was called while a command was waiting
\* in the arena, and a later execute has returned without invoking it.
C10_Witness ==
    /\ direct.op \in SyncOps
    /\ cpc = "returned" /\ Len(trace) > 0
    /\ \A k \in 1..Len(trace) : trace[k].op \notin SyncOps

\* The advance of a record as its bytes alone fix it: the stored next of a
\* marker, the aligned size of the command's type otherwise.
FixedAdvance(r) == IF r.kind = "noop" THEN r.next ELSE align(Sizeof(r.kind))

\* C11: the pointer the walk moves to after executing a record is the record's
\* address plus an advance fixed by the record alone, whether the call the
\* record invoked succeeded or failed; so the addresses a walk visits are the
\* same for every way the invoked calls end.
C11_NextIndependentOfOutcome ==
    [][(cpc = "exec" /\ cpc' = "loop")
          => /\ ~ub'
             /\ outcome' = outcome
             /\ base' = base + FixedAdvance(recs[cur])]_vars

\* C11 witness: a command whose call failed was left and the walk stands on the
\* command enqueued after it.
C11_Witness ==
    /\ cpc = "loop" /\ outcome = "fail" /\ ~ub
    /\ recs[cur].kind # "noop" /\ recs[cur].inv = 1
    /\ RecordAt(base) = cur + 1
    /\ recs[cur + 1].kind # "noop"
    /\ base = Addr(recs[cur].pos) + FixedAdvance(recs[cur])

\* The record the producer has allocated and not finished constructing.
InConstruction == IF ppc = "allocated" THEN {Len(recs)} ELSE {}
Walking == cpc \in {"loop", "exec"}

C13_MalformedDrainCaught ==
    /\ (cpc = "loop" /\ base # NULL) =>
          /\ RecordAt(base) # 0
          /\ recs[RecordAt(base)].inv = 0
    /\ \A i \in 1..Len(recs) : recs[i].inv <= 1 /\ recs[i].des <= 1
    /\ ~ub

\* The producer may start an enqueue: no call of it is in progress and the
\* bound on the records of one run is not reached.
MayEnqueue == Running /\ ppc = "idle" /\ Len(recs) + 2 <= MaxRecs

SliceCommands ==
    SelectSeq([i \in 1..Len(recs) |-> i],
              LAMBDA i : InSlice(i) /\ recs[i].kind # "noop")
\* The records the last n invocations were made for.
LastInvoked(n) == [k \in 1..n |-> trace[Len(trace) - n + k].id]

\* C15: in a build with tracing, execute invokes and destructs the records of
\* its buffer exactly as the buffer fixes it, as a build without tracing does:
\* when it returns, its invocations are the commands of the slice in order,
\* every record of the slice was executed and destructed once, and the steps
\* that start and read the profiler change no record and no invocation.
C15_TracingObservational ==
    /\ [](profiling => (systrace /\ Walking))
    /\ []((systrace /\ cpc = "returned") =>
            /\ ~ub
            /\ Len(trace) >= Len(SliceCommands)
            /\ LastInvoked(Len(SliceCommands)) = SliceCommands
            /\ \A i \in 1..Len(recs) :
                  InSlice(i) => /\ recs[i].inv = 1 /\ recs[i].des = 1
                                /\ recs[i].state = "destructed")
    /\ [][(profiling' # profiling) =>
            /\ UNCHANGED <<recs, trace, W, R, pending>>
            /\ (profiling' => base' = Addr(Head(pending).start))]_vars

\* C15 witness: a build with tracing has returned from a slice holding a typed
\* and a custom command, the profiler's counters read.
C15_Witness ==
    /\ systrace /\ cpc = "returned" /\ ~profiling
    /\ Len(SliceCommands) = 2
    /\ recs[SliceCommands[1]].kind \in TypedOps
    /\ recs[SliceCommands[2]].kind = "custom"
    /\ LastInvoked(2) = SliceCommands

IsSorted(a) == \A i \in 1..(Len(a) - 1) : a[i] <= a[i + 1]

\* C16: after radix_sort the range is in non-decreasing order, whatever the
\* input was, and it still is after a second call.
C16_RadixSortSorts == sortCalls >= 1 => IsSorted(data)

\* C17: the pool is deleted only when no upload is pending and the loader has
\* been destroyed: in no state has it been deleted while the loader is alive,
\* while its count is not zero or while the engine still holds a descriptor
\* whose callback it has not run.
C17_PoolDeletedOnlyWhenDone ==
    /\ [](poolDeletes > 0 =>
            /\ ~ownerAlive
            /\ mPendingUploads = 0
            /\ delivered = handed)
    /\ [][poolDeletes' > poolDeletes =>
            /\ ~ownerAlive' /\ mPendingUploads' = 0
            /\ (mLoaderDestroyed' \/ ownerAlive)]_vars

\* C17 witness: the pool was deleted by the last callback, after the loader was
\* destroyed with two uploads pending.
C17_Witness ==
    /\ poolDeletes = 1 /\ mLoaderDestroyed /\ ~ownerAlive
    /\ handed = 2 /\ delivered = 2

\* C18: a pool whose loader was destroyed while uploads were pending is not
\* deleted before the last of their callbacks has run, and once the loader is
\* destroyed the pool is eventually deleted, in whatever order the callbacks
\* and the destruction come.
C18_PoolEventuallyDeleted ==
    /\ []((~ownerAlive /\ delivered < handed) => poolDeletes = 0)
    /\ (~ownerAlive) ~> (poolDeletes = 1 /\ delivered = handed)

\* C18 witness: the ResourceLoader was destroyed with an upload pending and the
\* callback that came afterwards deleted the pool.
C18_Witness ==
    /\ loader = "ResourceLoader" /\ ~ownerAlive /\ mLoaderDestroyed
    /\ handed >= 1 /\ delivered = handed
    /\ poolDeletes = 1 /\ ~poolUB

\* C19: the first createAnimator constructs the asset's animator and every
\* later call returns that same animator without constructing another: at any
\* time at most one Animator of the asset exists and at most one was ever made.
C19_AnimatorCached ==
    /\ [](Cardinality(animators) <= 1 /\ animatorsCreated <= 1)
    /\ [](animatorCalls >= 1 =>
            /\ animatorsCreated = 1
            /\ returned # 0 /\ returned = mAnimator)
    /\ [][(animatorCalls' > animatorCalls) =>
            IF animatorCalls = 0
              THEN animatorsCreated' = 1 /\ animators' = {returned'}
              ELSE returned' = returned /\ UNCHANGED <<animators, animatorsCreated>>
          ]_vars

\* C19 witness: createAnimator was called three times on a live asset and one
\* animator exists, the one the last call returned.
C19_Witness ==
    /\ assetAlive /\ animatorCalls = 3
    /\ animatorsCreated = 1 /\ animators = {returned}

\* The one call the documentation of BufferBinding gives a binding.
ExpectedCall(bb) ==
    CASE bb.vertexBuffer -> "setBufferAt"
      [] bb.indexBuffer -> "setBuffer"
      [] bb.orientationBuffer -> "memcpyOrientation"
      [] bb.animationBuffer -> "memcpyAnimation"

\* C20: for each binding the loop of loadResources reaches, in ResourceLoader
\* and in BindingHelper, the loader makes exactly the one call that the
\* binding's non-null destination asks for, and a call that returns true has
\* done so for every binding of the asset.
C20_OneCallPerBinding ==
    /\ \A k \in 1..Len(effects) :
          /\ effects[k].binding = k
          /\ effects[k].call = ExpectedCall(bindings[k])
    /\ (lpc = "idle" /\ result = "true") => Len(effects) = Len(bindings)

\* ---------------------------------------------------------------- C21
\* Two calls made on the same cache, the later after the earlier with no
\* destroyMaterials between them.
SameCache(i, j) ==
    /\ i < j
    /\ materialCalls[i].op = "get" /\ materialCalls[j].op = "get"
    /\ \A k \in i..j : materialCalls[k].op = "get"

\* C21: getOrCreateMaterial builds a material only for a key not seen before.
\* Of two calls on the same cache whose keys were equal when passed in, the
\* later returns the material of the earlier and builds nothing, also when the
\* key is one that createMaterial writes.
C21_CreatedOncePerKey ==
    \A i, j \in 1..Len(materialCalls) :
        (SameCache(i, j)
            /\ EqualFn(materialCalls[i].passed, materialCalls[j].passed))
        => /\ materialCalls[j].mat = materialCalls[i].mat
           /\ ~materialCalls[j].created

\* ---------------------------------------------------------------- C22
IndexWidths == {"triangles32", "triangles16"}

\* C22 as first stated, read over the whole sequence of calls: once indices
\* of one width were supplied, every later call of triangles with the other
\* width fails 'Triangles already supplied.' and replaces nothing.
C22_AfterOtherWidthSupplied ==
    \A f \in IndexWidths :
        (lastCall.op = f /\ OtherWidth(f) \in supplied)
        => /\ panicked = "Triangles already supplied."
           /\ Indices(mImpl) = lastCall.before

\* C22: a builder holds indices of one width only.  A call of triangles made
\* while the builder holds a pointer that is not null for the other width
\* fails the precondition 'Triangles already supplied.' and leaves both stored
\* pointers as they were; made while the pointer of the other width is null
\* (never supplied, or supplied and since replaced by null) it stores its
\* argument.  The builder never holds indices of both widths.
C22_OneIndexWidth ==
    /\ \A f \in IndexWidths :
          lastCall.op = f =>
             IF lastCall.before[OtherWidth(f)] # NULL
               THEN /\ panicked = "Triangles already supplied."
                    /\ Indices(mImpl) = lastCall.before
               ELSE /\ panicked = "none"
                    /\ mImpl[f] = lastCall.arg
                    /\ mImpl[OtherWidth(f)] = NULL
    /\ ~(mImpl.triangles32 # NULL /\ mImpl.triangles16 # NULL)

\* 16-bit indices were passed to a builder holding 32-bit indices, and the
\* call failed.
C22_Witness ==
    /\ lastCall.op = "triangles16" /\ lastCall.arg # NULL
    /\ lastCall.before.triangles32 # NULL
    /\ mImpl.triangles32 = lastCall.before.triangles32
    /\ panicked = "Triangles already supplied."

\* ---------------------------------------------------------------- C23
\* C23: build fails its precondition when the normals are missing or the
\* vertex count is zero.  Otherwise it builds from the supplied tangents when
\* there are any, else from the normals alone when no UVs were given, and only
\* in the remaining case requires positions and triangles, failing without
\* them.  The object a successful build returns has the builder's vertex
\* count as its getVertexCount.
C23_BuildPreconditions ==
    lastCall.op = "build" =>
       LET hasTriangles == mImpl.triangles16 # NULL \/ mImpl.triangles32 # NULL
       IN  /\ mImpl.normals = NULL => panicked = "Normals are required."
           /\ (mImpl.normals # NULL /\ mImpl.vertexCount = 0)
                 => panicked = "Vertex count must be non-zero."
           /\ (mImpl.normals # NULL /\ mImpl.vertexCount > 0) =>
                 /\ mImpl.tangents # NULL
                       => /\ panicked = "none"
                          /\ orientation.by = "buildWithSuppliedTangents"
                 /\ (mImpl.tangents = NULL /\ mImpl.uvs = NULL)
                       => /\ panicked = "none"
                          /\ orientation.by = "buildWithNormalsOnly"
                 /\ (mImpl.tangents = NULL /\ mImpl.uvs # NULL) =>
                       IF hasTriangles /\ mImpl.positions # NULL
                         THEN /\ panicked = "none"
                              /\ orientation.by = "buildWithUvs"
                         ELSE panicked =
                           "When using UVs, positions and triangles are required."
           /\ panicked = "none"
                 => orientation.getVertexCount = mImpl.vertexCount

\* A build from UVs, positions and triangles succeeded with two vertices.
C23_Witness ==
    /\ lastCall.op = "build" /\ panicked = "none"
    /\ orientation.by = "buildWithUvs"
    /\ orientation.getVertexCount = 2

\* ---------------------------------------------------------------- C24
\* The first byte after the allocation of record i: where the cursor stood
\* when the allocation returned, which is where the record or marker placed
\* next starts.
AllocEnd(i) == IF i < Len(recs) THEN recs[i + 1].pos ELSE W

\* C24: the advance a custom command reports is the size queueCommand
\* allocated for it, and the step that applies the advance of a custom command
\* leaves the walk at the first byte following the command's allocation.
C24_CustomAdvanceIsAllocation ==
    /\ [](\A i \in CustomRecords :
            /\ AllocEnd(i) - recs[i].pos = CustomCommandNext
            /\ (cpc = "exec" /\ cur = i /\ next # NoNext)
                  => next = AllocEnd(i) - recs[i].pos)
    /\ [][(cpc = "exec" /\ cpc' = "loop" /\ recs[cur].kind = "custom")
            => base' = Addr(recs[cur].pos) + (AllocEnd(cur) - recs[cur].pos)]_vars

\* The walk has just left an executed custom command and stands at the end of
\* its allocation, where another command starts.
C24_Witness ==
    /\ cpc = "loop" /\ cur \in CustomRecords
    /\ recs[cur].inv = 1 /\ recs[cur].des = 1
    /\ base = Addr(AllocEnd(cur))
    /\ RecordAt(base) = cur + 1
    /\ recs[cur + 1].kind = "custom"

\* ---------------------------------------------------------------- C25
\* C25: a typed command's execute invokes the driver method with the stored
\* arguments, then destructs them, then reports the advance, which is the
\* aligned size of the record: the arguments are never destructed before the
\* method was invoked, the advance is not reported before they are destructed,
\* and the walk then moves to the byte following the record.
C25_TypedExecuteOrder ==
    /\ [](\A i \in TypedRecords :
            /\ recs[i].des <= recs[i].inv
            /\ recs[i].inv <= 1
            /\ (cpc = "exec" /\ cur = i) =>
                  /\ step = 1 => (recs[i].inv = 0 /\ recs[i].des = 0)
                  /\ next # NoNext =>
                        /\ recs[i].inv = 1 /\ recs[i].des = 1
                        /\ next = align(Sizeof(recs[i].kind)))
    /\ [][(cpc = "exec" /\ cpc' = "loop" /\ recs[cur].kind \in TypedOps)
            => /\ recs[cur].inv = 1 /\ recs[cur].des = 1
               /\ base' = base + align(Sizeof(recs[cur].kind))
               /\ base = Addr(recs[cur].pos)]_vars

\* A typed command's method was invoked with the stored argument and the
\* arguments are not destructed yet.
C25_Witness ==
    /\ cpc = "exec" /\ cur \in TypedRecords
    /\ recs[cur].inv = 1 /\ recs[cur].des = 0 /\ next = NoNext
    /\ trace # <<>>
    /\ trace[Len(trace)].id = cur /\ trace[Len(trace)].arg = recs[cur].arg

\* ---------------------------------------------------------------- C26
\* The bytes allocated to record i, as addresses: [AllocStart(i), AllocStop(i)).
AllocStart(i) == Addr(recs[i].pos)
AllocStop(i) == Addr(recs[i].pos) + align(Sizeof(recs[i].kind))
\* Constructed and not yet executed.
Waiting(i) == recs[i].state = "constructed" /\ recs[i].inv = 0

\* C26: within one generation the allocations of two records that are
\* constructed and not yet executed are disjoint; the write cursor is moved
\* back only by a reset; and a reset happens only when every record enqueued
\* since the last one has been executed.
C26_GenerationDiscipline ==
    /\ [](\A i, j \in 1..Len(recs) :
            (i # j /\ Waiting(i) /\ Waiting(j))
            => (AllocStop(i) <= AllocStart(j) \/ AllocStop(j) <= AllocStart(i)))
    /\ [][W' >= W \/ Reset]_vars
    /\ [][Reset => \A i \in 1..Len(recs) :
                      /\ recs[i].state = "destructed"
                      /\ recs[i].inv = 1]_vars

\* After a wraparound, a record waiting near the end of the arena and a
\* command enqueued later waiting at a lower address.
C26_Witness ==
    \E i, j \in 1..Len(recs) :
        /\ i < j /\ Waiting(i) /\ Waiting(j)
        /\ recs[j].kind # "noop"
        /\ AllocStart(j) < AllocStart(i)

\* ---------------------------------------------------------------- C27
\* C27: every recursive call of radixSort is given exactly the range of one
\* bucket of the caller's digit: the range given is that of the bucket the
\* call is made for, and all its elements have that bucket's value in the
\* caller's digit.
C27_RecursionGetsOneBucket ==
    \A c \in sortLog.passed :
        /\ c.begin = c.bucketBegin /\ c.end = c.bucketEnd
        /\ c.radixes = {c.bucket}

\* ---------------------------------------------------------------- C28
\* Every element lies in the range of the bucket of its digit.
InBuckets ==
    \A i \in 0..(Len(data) - 1) :
        LET radix == getRadix(loop.digit, data[i + 1])
        IN  loop.start[radix] <= i /\ i < loop.next[radix]

LoopRunning == loop.pc \in {"for", "while", "inner"}

\* C28 as first stated: the loop ends, and when it has ended every element is
\* in the range of its bucket and the offset of every bucket equals its next.
C28_LoopEndsAllPlaced ==
    /\ LoopRunning ~> (loop.pc = "done")
    /\ [](loop.pc = "done" =>
            /\ InBuckets
            /\ \A q \in Buckets : loop.offset[q] = loop.next[q])

\* C28: the loop ends for every input without an access outside the range,
\* and when it has ended every element is in the range of its bucket.  The
\* loop ends at the first bucket whose next is the size of the range, without
\* entering it: the offset of every other bucket equals its next, the offset
\* of that bucket lies between its start and its next.
C28_LoopEndsInBuckets ==
    /\ LoopRunning ~> (loop.pc = "done")
    /\ [](loop.pc # "undefined")
    /\ [](loop.pc = "done" =>
            /\ InBuckets
            /\ loop.p \in Buckets
            /\ loop.next[loop.p] = Len(data)
            /\ \A q \in Buckets :
                  /\ q # loop.p => loop.offset[q] = loop.next[q]
                  /\ q < loop.p => loop.next[q] < Len(data)
            /\ loop.start[loop.p] <= loop.offset[loop.p]
            /\ loop.offset[loop.p] <= loop.next[loop.p])

\* The loop has ended after filling an earlier bucket; elements were moved into
\* the bucket it stopped at, whose offset is short of its next.
C28_Witness ==
    /\ loop.pc = "done" /\ loop.p > 0
    /\ loop.start[loop.p] > 0
    /\ loop.start[loop.p] < loop.offset[loop.p]
    /\ loop.offset[loop.p] < loop.next[loop.p]

\* ---------------------------------------------------------------- C29
\* The number of elements of a equal to v among those at begin .. end - 1.
Count(a, begin, end, v) ==
    Cardinality({i \in begin..(end - 1) : a[i + 1] = v})

\* C29: a call of radix_sort on [begin, end) leaves in the range the values
\* that were in it, each as many times as before, and leaves every element
\* outside the range as it was.
C29_OnlyPermutes ==
    sortCalls >= 1 =>
        /\ Len(data) = Len(sortLog.before)
        /\ \A v \in Values :
              Count(data, sortLog.begin, sortLog.end, v)
                = Count(sortLog.before, sortLog.begin, sortLog.end, v)
        /\ \A i \in 1..Len(data) :
              (i <= sortLog.begin \/ i > sortLog.end)
                 => data[i] = sortLog.before[i]
        /\ \A i \in 1..Len(data) : data[i] \in Values

\* A range longer than the cutoff, with an element before it, was distributed
\* and came out in another order.
C29_Witness ==
    /\ sortCalls = 1
    /\ sortLog.begin > 0 /\ sortLog.end - sortLog.begin > StdSortMax
    /\ sortLog.passed # {}
    /\ data # sortLog.before

\* ---------------------------------------------------------------- C30
\* C30: however the release callbacks and the destruction of the loader
\* interleave, on one thread or on two, the pool is deleted at most once and
\* no method reads or writes it after it was deleted.
C30_DeletedOnceUntouched == poolDeletes <= 1 /\ ~poolUB

\* ---------------------------------------------------------------- C31
\* C31: in every state the pending count of the pool is the number of
\* descriptors handed to the engine less the number of callbacks delivered,
\* and is not negative.  The count is raised before the descriptor is handed:
\* between these two statements of loadResources it is one ahead, so that a
\* callback never finds it at 0 or less.
C31_PendingIsHandedLessDelivered ==
    /\ mPendingUploads >= 0
    /\ delivered <= handed
    /\ mPendingUploads =
         handed - delivered + (IF lpc = "uploading" THEN 1 ELSE 0)

\* C31 witness: two descriptors were handed, the callback of one has run while
\* the other is due, and no load is in progress: the count is 1.
C31_Witness ==
    /\ lpc = "idle" /\ handed = 2 /\ delivered = 1 /\ mPendingUploads = 1

====
